---- MODULE Spec2Model ----
(***************************************************************************)
(* TerminalManager (backend/app/services/terminal_manager.py): the         *)
(* registry of spawned terminal processes, their output pumps, monitor     *)
(* and subscriber queues, as coroutines of one asyncio event loop.         *)
(*                                                                         *)
(* One action is one run of a coroutine between two suspension points      *)
(* (await on a busy lock, on the process, on a pipe, on a full queue).     *)
(* asyncio.Lock.acquire() does not suspend when the lock is free, so a     *)
(* critical section without an await inside it is part of the step that    *)
(* enters it; a coroutine that waits for a busy lock has done nothing yet, *)
(* and takes its step once the lock is free.                               *)
(***************************************************************************)
EXTENDS Integers, Sequences, FiniteSets, TLC

\* ---------------------------------------------------------------- bounds
\* spawn() calls made in a run; call k generates terminal id k (uuid4: fresh)
MaxIds == 2
\* asyncio.Queue objects created by subscribe() in a run
MaxQueues == 2
\* lines a process writes (stdout and stderr together)
MaxLines == 1

\* lines a process writes in the runs that look at the order of its lines
MaxBurst == 2

Ids == 1..MaxIds
\* an id no spawn() ever generated, as a caller may pass to stop/subscribe
UnknownId == 0
AllIds == {UnknownId} \cup Ids
Queues == 1..MaxQueues
Streams == {"stdout", "stderr"}
Roles == Streams \cup {"monitor"}

\* bytes of a line as the pipe delivers it (without its newline, which
\* str.strip() removes with the rest of the surrounding whitespace)
RawLines == { <<"h">>, <<" ", "x80">>, <<" ">> }
NaturalExitCodes == {0, 1}
SIGTERM == 15
SIGKILL == 9

VARIABLES
  config,            \* config.py: the limits read from the environment
  active_terminals,  \* keys of self.active_terminals (value: the id's process)
  subscribers,       \* self.subscribers: id -> set of queues
  output_tasks,      \* keys of self.output_tasks (value: the id's 3 tasks)
  lock,              \* self._lock: "free", or held by "stop" or by "cleanup"
  spawnPc,           \* position of spawn() call k
  proc,              \* OS process of id: [st, rc]
  written,           \* written[id][stream]: the lines the process wrote
  task,              \* task[id][role]: the id's stdout pump, stderr pump, monitor
  stopPc,            \* position of the stop() call that holds the lock
  stopId,            \* its terminal_id
  cleanupPc,         \* position of cleanup()
  cList,             \* cleanup's list(self.active_terminals.items())
  cTodo,             \* the part of it still to do
  cCur,              \* the id cleanup is waiting for
  nextQ,             \* number of queues created
  enq,               \* every message put in a queue, in order
  got,               \* number of messages the consumer has taken from a queue
  dbStatus,          \* Terminal.status of the id's database record
  removals,          \* times the monitor or stop() ran its removal of the id
  statusBcast,       \* times _broadcast was called with the id's status message
  dropped,           \* <<q, message>> whose put timed out
  subAt,             \* stdout lines the session had written when q subscribed
  lateSpawn,         \* a spawn() call was made after cleanup() returned
  stopped,           \* times a stop() call on the id returned normally
  raised,            \* the last exception a stop(), subscribe() or unsubscribe() call raised
  request,           \* the arguments of the last spawn() call
  handler            \* handler[h]: connection h of terminal_stream

vars == <<config, active_terminals, subscribers, output_tasks, lock, spawnPc,
          proc, written, task, stopPc, stopId, cleanupPc, cList, cTodo, cCur,
          nextQ, enq, got, dbStatus, removals, statusBcast, dropped, subAt,
          lateSpawn, stopped, raised, request, handler>>

\* ------------------------------------------------------- configuration
\* config.py reads these from the environment when the module is loaded
\* (defaults 10, 5, 1000); a run is made under one configuration.
MAX_TERMINALS == config.MAX_TERMINALS
MAX_SUBSCRIBERS_PER_TERMINAL == config.MAX_SUBSCRIBERS_PER_TERMINAL
OUTPUT_QUEUE_SIZE == config.OUTPUT_QUEUE_SIZE

\* every limit at its least value
SmallConfig ==
  [MAX_TERMINALS |-> 1, MAX_SUBSCRIBERS_PER_TERMINAL |-> 1,
   OUTPUT_QUEUE_SIZE |-> 1]
\* room for two sessions
PairConfig ==
  [MAX_TERMINALS |-> 2, MAX_SUBSCRIBERS_PER_TERMINAL |-> 1,
   OUTPUT_QUEUE_SIZE |-> 1]
\* room for two subscribers on a session
FanoutConfig ==
  [MAX_TERMINALS |-> 1, MAX_SUBSCRIBERS_PER_TERMINAL |-> 2,
   OUTPUT_QUEUE_SIZE |-> 1]

\* ------------------------------------------------------------- helpers
\* no call has raised yet
NoError == [op |-> "none", id |-> UnknownId, type |-> "none"]
\* the call op(id) raised an exception of the type
Error(op, id, type) == [op |-> op, id |-> id, type |-> type]

\* no spawn() call has been made yet
NoRequest == [id |-> UnknownId, command |-> "", working_dir |-> << >>]

\* a task: pc none (not created), read/wait (suspended in readline() or
\* process.wait()), bcast (inside _broadcast), done, failed (ended by an
\* exception), cancelled; pos: lines the
\* pump has read; todo: queues of _broadcast's snapshot not yet served
NoTask == [pc |-> "none", pos |-> 0, todo |-> {}]

\* dict.get(terminal_id, set())
SubscribersOf(id) == IF id \in DOMAIN subscribers THEN subscribers[id] ELSE {}

\* dict[key] = value
SetKey(f, id, v) == [i \in DOMAIN f \cup {id} |-> IF i = id THEN v ELSE f[i]]

Alive(id) == proc[id].st \in {"run", "term", "kill"}
Exited(id) == proc[id].st = "exited"

\* the queue's current content: what was put and not yet taken
QueueContent(q) == SubSeq(enq[q], got[q] + 1, Len(enq[q]))
QueueFull(q) == Len(QueueContent(q)) >= OUTPUT_QUEUE_SIZE

\* ids a caller can know: returned by spawn() or listed from the database
KnownIds == {UnknownId} \cup {k \in Ids : spawnPc[k] = "ok"}

\* the websocket connections: each one creates at most one queue
Handlers == Queues

\* a connection that has not been made. pc: "none", "loop" (the forwarding
\* loop), "finally" (the finally block, before unsubscribe), "returned"; id:
\* the terminal_id of the URL; queue: the queue subscribe() returned, 0 while
\* the local name is unbound; live: the id was in the registry at subscribe();
\* why: what ended the loop; unsubscribed: unsubscribe() calls made
NoHandler ==
  [pc |-> "none", id |-> UnknownId, queue |-> 0, live |-> FALSE,
   why |-> "none", unsubscribed |-> 0]

\* the manager as constructed, under configuration c
Configured(c) ==
  /\ config = c
  /\ active_terminals = {}
  /\ subscribers = [i \in {} |-> {}]
  /\ output_tasks = {}
  /\ lock = "free"
  /\ spawnPc = [k \in Ids |-> "idle"]
  /\ proc = [k \in Ids |-> [st |-> "none", rc |-> 0]]
  /\ written = [k \in Ids |-> [s \in Streams |-> << >>]]
  /\ task = [k \in Ids |-> [r \in Roles |-> NoTask]]
  /\ stopPc = "idle"
  /\ stopId = UnknownId
  /\ cleanupPc = "idle"
  /\ cList = {}
  /\ cTodo = {}
  /\ cCur = UnknownId
  /\ nextQ = 0
  /\ enq = [q \in Queues |-> << >>]
  /\ got = [q \in Queues |-> 0]
  /\ dbStatus = [k \in Ids |-> "none"]
  /\ removals = [k \in Ids |-> 0]
  /\ statusBcast = [k \in Ids |-> 0]
  /\ dropped = {}
  /\ subAt = [q \in Queues |-> 0]
  /\ lateSpawn = FALSE
  /\ stopped = [k \in Ids |-> 0]
  /\ raised = NoError
  /\ request = NoRequest
  /\ handler = [h \in Handlers |-> NoHandler]

Init == Configured(SmallConfig)

\* ------------------------------------------------------------- spawn()
\* the limit check of spawn() with > for >=
AtCapacityOffByOne == Cardinality(active_terminals) > MAX_TERMINALS

\* the limit check of spawn(), made under the lock
AtCapacity == Cardinality(active_terminals) >= MAX_TERMINALS

\* config.ALLOWED_COMMANDS and config.ALLOWED_BASE_DIRS (a path is the
\* sequence of its components)
ALLOWED_COMMANDS == {"claude", "python", "node", "npm", "git"}
ALLOWED_BASE_DIRS ==
  { <<"C:", "Users", "17175">>, <<"C:", "Users", "17175", "Desktop">> }

\* the file system: the symbolic links and the directories that exist
Links == [p \in { <<"C:", "Users", "17175", "link">> } |-> <<"C:", "Windows">>]
ProjectDir == <<"C:", "Users", "17175", "proj">>
ExistingDirs == ALLOWED_BASE_DIRS \cup {ProjectDir, <<"C:", "Windows">>}

\* the commands and working directories a caller passes: an allowed command
\* and one that is not; a project directory, a path that leaves the allowed
\* directory by "..", a link that points out of it, a directory that is missing
Commands == {"claude", "rm -rf /"}
WorkingDirs ==
  { ProjectDir,
    <<"C:", "Users", "17175", "..", "Other">>,
    <<"C:", "Users", "17175", "link">>,
    <<"C:", "Users", "17175", "missing">> }

\* os.path.realpath: ".." steps back, a link is replaced by its target
RECURSIVE Resolve(_, _)
Resolve(done, rest) ==
  IF rest = << >> THEN done
  ELSE IF Head(rest) = ".."
  THEN Resolve(SubSeq(done, 1, Len(done) - 1), Tail(rest))
  ELSE LET p == Append(done, Head(rest))
       IN Resolve(IF p \in DOMAIN Links THEN Links[p] ELSE p, Tail(rest))

RealPath(path) == Resolve(<< >>, path)

\* abs_path is the base or starts with the base and a separator
Within(base, path) ==
  Len(base) <= Len(path) /\ SubSeq(path, 1, Len(base)) = base

\* config.validate_path
ValidatePath(path) ==
  LET abs_path == RealPath(path)
  IN /\ \A i \in 1..Len(abs_path) : abs_path[i] # ".."
     /\ \E base_dir \in ALLOWED_BASE_DIRS : Within(RealPath(base_dir), abs_path)

\* a whitelist check that lets every command through
AnyCommandAllowed(command) == TRUE

\* command in config.ALLOWED_COMMANDS
CommandAllowed(command) == command \in ALLOWED_COMMANDS

\* the three checks spawn() makes on its arguments after the limit check
ValidInput(command, working_dir) ==
  /\ CommandAllowed(command)
  /\ ValidatePath(working_dir)
  /\ working_dir \in ExistingDirs

\* spawn(command, working_dir) entered: the limit check, under the lock, then
\* the checks of the arguments; ValueError from either, else the call suspends
\* in create_subprocess_exec.
SpawnEnter(k, command, working_dir) ==
  /\ spawnPc[k] = "idle"
  /\ \A j \in Ids : j < k => spawnPc[j] # "idle"
  /\ lock = "free"
  /\ request' = [id |-> k, command |-> command, working_dir |-> working_dir]
  /\ spawnPc' = [spawnPc EXCEPT ![k] =
                   IF AtCapacity THEN "limit"
                   ELSE IF ~ValidInput(command, working_dir) THEN "invalid"
                   ELSE "launch"]
  /\ lateSpawn' = (lateSpawn \/ cleanupPc = "done")
  /\ UNCHANGED <<config, active_terminals, subscribers, output_tasks, lock,
                 proc, written, task, stopPc, stopId, cleanupPc, cList, cTodo,
                 cCur, nextQ, enq, got, dbStatus, removals, statusBcast,
                 dropped, subAt, stopped, raised, handler>>

\* spawn() entered with arguments that pass the checks
SpawnCheck(k) == SpawnEnter(k, "claude", ProjectDir)

\* _start_output_capture that creates and registers the stdout task alone
StartStdoutCaptureOnly(k) ==
  IF k \in active_terminals'
  THEN /\ task' = [task EXCEPT ![k]["stdout"] = [pc |-> "read", pos |-> 0, todo |-> {}]]
       /\ output_tasks' = output_tasks \cup {k}
  ELSE UNCHANGED <<task, output_tasks>>

\* _start_output_capture: the three tasks of id k, created and registered
StartOutputCapture(k) ==
  IF k \in active_terminals'
  THEN /\ task' = [task EXCEPT ![k] = [r \in Roles |->
                     [pc |-> IF r = "monitor" THEN "wait" ELSE "read",
                      pos |-> 0, todo |-> {}]]]
       /\ output_tasks' = output_tasks \cup {k}
  ELSE UNCHANGED <<task, output_tasks>>

\* spawn() from "Store process" on, with the lock free: the registry entry, the
\* database record and, if the commit succeeds, the tasks; if it fails,
\* process.kill() and the call suspends in process.wait().
Store(k, dbOk, st) ==
  /\ active_terminals' = active_terminals \cup {k}
  /\ subscribers' = SetKey(subscribers, k, {})
  /\ IF dbOk
     THEN /\ dbStatus' = [dbStatus EXCEPT ![k] = "active"]
          /\ StartOutputCapture(k)
          /\ proc' = [proc EXCEPT ![k].st = st]
          /\ spawnPc' = [spawnPc EXCEPT ![k] = "ok"]
     ELSE /\ proc' = [proc EXCEPT ![k].st = IF st = "exited" THEN st ELSE "kill"]
          /\ spawnPc' = [spawnPc EXCEPT ![k] = "dbwait"]
          /\ UNCHANGED <<dbStatus, task, output_tasks>>
  /\ UNCHANGED <<config, lock, written, stopPc, stopId, cleanupPc, cList,
                 cTodo, cCur, nextQ, enq, got, removals, statusBcast, dropped,
                 subAt, lateSpawn, stopped, raised, request, handler>>

\* create_subprocess_exec returns: an OSError (osOk false: no process, spawn()
\* raises RuntimeError), or the process; then, with the lock free, spawn() goes
\* on without suspending (dbOk: the commit of the record succeeds), else it
\* waits for the lock.
SpawnLaunched(k, osOk, dbOk) ==
  /\ spawnPc[k] = "launch"
  /\ IF ~osOk
     THEN /\ spawnPc' = [spawnPc EXCEPT ![k] = "oserr"]
          /\ UNCHANGED <<config, active_terminals, subscribers, output_tasks,
                         lock, proc, written, task, stopPc, stopId, cleanupPc,
                         cList, cTodo, cCur, nextQ, enq, got, dbStatus,
                         removals, statusBcast, dropped, subAt, lateSpawn,
                         stopped, raised, request, handler>>
     ELSE IF lock = "free"
     THEN Store(k, dbOk, "run")
     ELSE /\ proc' = [proc EXCEPT ![k].st = "run"]
          /\ spawnPc' = [spawnPc EXCEPT ![k] = "store"]
          /\ UNCHANGED <<config, active_terminals, subscribers, output_tasks,
                         lock, written, task, stopPc, stopId, cleanupPc,
                         cList, cTodo, cCur, nextQ, enq, got, dbStatus,
                         removals, statusBcast, dropped, subAt, lateSpawn,
                         stopped, raised, request, handler>>

\* spawn() gets the lock it waited for
SpawnStore(k, dbOk) ==
  /\ spawnPc[k] = "store"
  /\ lock = "free"
  /\ Store(k, dbOk, proc[k].st)

\* spawn() after a failed commit: process.wait() returned, the entry is popped
\* under the lock and RuntimeError raised
SpawnDbFailed(k) ==
  /\ spawnPc[k] = "dbwait"
  /\ Exited(k)
  /\ lock = "free"
  /\ active_terminals' = active_terminals \ {k}
  /\ spawnPc' = [spawnPc EXCEPT ![k] = "dberr"]
  /\ UNCHANGED <<config, subscribers, output_tasks, lock, proc, written, task,
                 stopPc, stopId, cleanupPc, cList, cTodo, cCur, nextQ, enq,
                 got, dbStatus, removals, statusBcast, dropped, subAt,
                 lateSpawn, stopped, raised, request, handler>>

\* ---------------------------------------------------------- the process
LinesWritten(k) == Len(written[k]["stdout"]) + Len(written[k]["stderr"])

\* the process writes a line to one of its pipes, in a run of at most max
\* lines for a process
ProcWriteWithin(k, s, l, max) ==
  /\ Alive(k)
  /\ LinesWritten(k) < max
  /\ written' = [written EXCEPT ![k][s] = Append(@, l)]
  /\ UNCHANGED <<config, active_terminals, subscribers, output_tasks, lock,
                 spawnPc, proc, task, stopPc, stopId, cleanupPc, cList, cTodo,
                 cCur, nextQ, enq, got, dbStatus, removals, statusBcast,
                 dropped, subAt, lateSpawn, stopped, raised, request, handler>>

ProcWrite(k, s, l) == ProcWriteWithin(k, s, l, MaxLines)

\* the process exits: by itself with code rc, or by the signal it was sent
ProcExit(k, rc) ==
  /\ Alive(k)
  /\ proc' = [proc EXCEPT ![k] =
                [st |-> "exited",
                 rc |-> IF proc[k].st = "run" THEN rc
                        ELSE IF proc[k].st = "term" THEN -SIGTERM
                        ELSE -SIGKILL]]
  /\ UNCHANGED <<config, active_terminals, subscribers, output_tasks, lock,
                 spawnPc, written, task, stopPc, stopId, cleanupPc, cList,
                 cTodo, cCur, nextQ, enq, got, dbStatus, removals,
                 statusBcast, dropped, subAt, lateSpawn, stopped, raised,
                 request, handler>>

\* ------------------------------------------------------ _capture_output
Whitespace == {" "}

\* bytes.decode(encoding, errors='replace'): a byte that does not decode
\* becomes U+FFFD
Decode(line) ==
  [i \in 1..Len(line) |-> IF line[i] = "x80" THEN "fffd" ELSE line[i]]

RECURSIVE LStrip(_)
LStrip(s) ==
  IF s # << >> /\ Head(s) \in Whitespace THEN LStrip(Tail(s)) ELSE s

RECURSIVE RStrip(_)
RStrip(s) ==
  IF s # << >> /\ s[Len(s)] \in Whitespace
  THEN RStrip(SubSeq(s, 1, Len(s) - 1)) ELSE s

\* str.strip()
Strip(s) == RStrip(LStrip(s))

\* the line decoded but not stripped
DecodedLineNoStrip(line) == Decode(line)

\* decoded_line of _capture_output
DecodedLine(line) == Strip(Decode(line))

\* the message a pump broadcasts for the line it has just read
OutputMessage(k, s, line) ==
  [terminal_id |-> k, type |-> s, line |-> DecodedLine(line)]

\* the message the monitor broadcasts
StatusMessage(k, rc) ==
  [terminal_id |-> k, type |-> "status", status |-> "stopped", exit_code |-> rc]

\* the message task r of id k is broadcasting
CurrentMessage(k, r) ==
  IF r = "monitor" THEN StatusMessage(k, proc[k].rc)
  ELSE OutputMessage(k, r, written[k][r][task[k][r].pos])

\* the pump reads the next line (or end of file, once the process has exited
\* and the pipe is drained); a line that is empty once stripped is skipped; any
\* other is handed to _broadcast, which takes its snapshot of the subscribers
PumpRead(k, s) ==
  /\ task[k][s].pc = "read"
  /\ IF task[k][s].pos < Len(written[k][s])
     THEN LET line == written[k][s][task[k][s].pos + 1]
              snap == IF DecodedLine(line) = << >> THEN {} ELSE SubscribersOf(k)
          IN task' = [task EXCEPT ![k][s] =
                        [pc |-> IF snap = {} THEN "read" ELSE "bcast",
                         pos |-> @.pos + 1, todo |-> snap]]
     ELSE /\ Exited(k)
          /\ task' = [task EXCEPT ![k][s].pc = "done"]
  /\ UNCHANGED <<config, active_terminals, subscribers, output_tasks, lock,
                 spawnPc, proc, written, stopPc, stopId, cleanupPc, cList,
                 cTodo, cCur, nextQ, enq, got, dbStatus, removals,
                 statusBcast, dropped, subAt, lateSpawn, stopped, raised,
                 request, handler>>

\* readline() raises in the pump (ValueError when the process has written
\* more than the reader's limit of 64 KiB without a newline): the pump's
\* `except Exception` logs the error and the task ends
PumpFault(k, s) ==
  /\ task[k][s].pc = "read"
  /\ task' = [task EXCEPT ![k][s].pc = "failed"]
  /\ UNCHANGED <<config, active_terminals, subscribers, output_tasks, lock,
                 spawnPc, proc, written, stopPc, stopId, cleanupPc, cList,
                 cTodo, cCur, nextQ, enq, got, dbStatus, removals,
                 statusBcast, dropped, subAt, lateSpawn, stopped, raised,
                 request, handler>>

\* ------------------------------------------------------------ _broadcast
\* _broadcast iterating the live subscriber set: a queue that has detached
\* in the meantime is passed over
ServedLiveSet(k, r, q) ==
  LET rest == (task[k][r].todo \ {q}) \cap SubscribersOf(k)
  IN [task EXCEPT ![k][r] =
        [pc |-> IF rest # {} THEN "bcast"
                ELSE IF r = "monitor" THEN "done" ELSE "read",
         pos |-> @.pos, todo |-> rest]]

\* the task's state once queue q of the snapshot has been dealt with: the
\* next queue, or back in the caller (the pump reads on, the monitor ends)
Served(k, r, q) ==
  LET rest == task[k][r].todo \ {q}
  IN [task EXCEPT ![k][r] =
        [pc |-> IF rest # {} THEN "bcast"
                ELSE IF r = "monitor" THEN "done" ELSE "read",
         pos |-> @.pos, todo |-> rest]]

\* queue.put(message) on a queue that hands out its newest item first
BroadcastPutLifo(k, r, q) ==
  /\ task[k][r].pc = "bcast"
  /\ q \in task[k][r].todo
  /\ ~QueueFull(q)
  /\ enq' = [enq EXCEPT ![q] = <<CurrentMessage(k, r)>> \o @]
  /\ task' = Served(k, r, q)
  /\ UNCHANGED <<config, active_terminals, subscribers, output_tasks, lock,
                 spawnPc, proc, written, stopPc, stopId, cleanupPc, cList,
                 cTodo, cCur, nextQ, got, dbStatus, removals, statusBcast,
                 dropped, subAt, lateSpawn, stopped, raised, request, handler>>

\* queue.put(message) on a queue with room
BroadcastPut(k, r, q) ==
  /\ task[k][r].pc = "bcast"
  /\ q \in task[k][r].todo
  /\ ~QueueFull(q)
  /\ enq' = [enq EXCEPT ![q] = Append(@, CurrentMessage(k, r))]
  /\ task' = Served(k, r, q)
  /\ UNCHANGED <<config, active_terminals, subscribers, output_tasks, lock,
                 spawnPc, proc, written, stopPc, stopId, cleanupPc, cList,
                 cTodo, cCur, nextQ, got, dbStatus, removals, statusBcast,
                 dropped, subAt, lateSpawn, stopped, raised, request, handler>>

\* the TimeoutError of a put leaves _broadcast and ends the task
BroadcastTimeoutRaises(k, r, q) ==
  /\ task[k][r].pc = "bcast"
  /\ q \in task[k][r].todo
  /\ QueueFull(q)
  /\ dropped' = dropped \cup {<<q, CurrentMessage(k, r)>>}
  /\ task' = [task EXCEPT ![k][r] = [pc |-> "done", pos |-> @.pos, todo |-> {}]]
  /\ UNCHANGED <<config, active_terminals, subscribers, output_tasks, lock,
                 spawnPc, proc, written, stopPc, stopId, cleanupPc, cList,
                 cTodo, cCur, nextQ, enq, got, dbStatus, removals,
                 statusBcast, subAt, lateSpawn, stopped, raised, request,
                 handler>>

\* queue.put(message) on a full queue: wait_for times out after QUEUE_TIMEOUT,
\* the message is not put, the loop goes on
BroadcastTimeout(k, r, q) ==
  /\ task[k][r].pc = "bcast"
  /\ q \in task[k][r].todo
  /\ QueueFull(q)
  /\ dropped' = dropped \cup {<<q, CurrentMessage(k, r)>>}
  /\ task' = Served(k, r, q)
  /\ UNCHANGED <<config, active_terminals, subscribers, output_tasks, lock,
                 spawnPc, proc, written, stopPc, stopId, cleanupPc, cList,
                 cTodo, cCur, nextQ, enq, got, dbStatus, removals,
                 statusBcast, subAt, lateSpawn, stopped, raised, request,
                 handler>>

\* ----------------------------------------------------- _monitor_process
\* the status update of a database record; it does nothing without a record
\* or when the commit fails (rolled back)
RecordStopped(k, dbOk) ==
  IF dbOk /\ dbStatus[k] # "none"
  THEN [dbStatus EXCEPT ![k] = "stopped"] ELSE dbStatus

\* a monitor that a failed status update ends: the id is popped, nothing is
\* broadcast
MonitorExitAbortsOnDbError(k, dbOk) ==
  /\ task[k]["monitor"].pc = "wait"
  /\ Exited(k)
  /\ lock = "free"
  /\ active_terminals' = active_terminals \ {k}
  /\ removals' = [removals EXCEPT ![k] = @ + 1]
  /\ dbStatus' = RecordStopped(k, dbOk)
  /\ statusBcast' = [statusBcast EXCEPT ![k] = IF dbOk THEN @ + 1 ELSE @]
  /\ task' = [task EXCEPT ![k]["monitor"] =
                [pc |-> IF dbOk /\ SubscribersOf(k) # {} THEN "bcast" ELSE "done",
                 pos |-> 0, todo |-> IF dbOk THEN SubscribersOf(k) ELSE {}]]
  /\ UNCHANGED <<config, subscribers, output_tasks, lock, spawnPc, proc,
                 written, stopPc, stopId, cleanupPc, cList, cTodo, cCur,
                 nextQ, enq, got, dropped, subAt, lateSpawn, stopped, raised,
                 request, handler>>

\* process.wait() has returned and the lock is free: the monitor pops the id,
\* updates the record and calls _broadcast with the status message
MonitorExit(k, dbOk) ==
  /\ task[k]["monitor"].pc = "wait"
  /\ Exited(k)
  /\ lock = "free"
  /\ active_terminals' = active_terminals \ {k}
  /\ removals' = [removals EXCEPT ![k] = @ + 1]
  /\ dbStatus' = RecordStopped(k, dbOk)
  /\ statusBcast' = [statusBcast EXCEPT ![k] = @ + 1]
  /\ task' = [task EXCEPT ![k]["monitor"] =
                [pc |-> IF SubscribersOf(k) = {} THEN "done" ELSE "bcast",
                 pos |-> 0, todo |-> SubscribersOf(k)]]
  /\ UNCHANGED <<config, subscribers, output_tasks, lock, spawnPc, proc,
                 written, stopPc, stopId, cleanupPc, cList, cTodo, cCur,
                 nextQ, enq, got, dropped, subAt, lateSpawn, stopped, raised,
                 request, handler>>

\* ------------------------------------------------------------------ stop()
\* only the first task of each list (the stdout pump) is cancelled
CancelledFirstOnly(ids) ==
  [k \in Ids |-> [r \in Roles |->
     IF k \in ids /\ r = "stdout" /\ task[k][r].pc \in {"read", "wait", "bcast"}
     THEN [pc |-> "cancelled", pos |-> task[k][r].pos, todo |-> {}]
     ELSE task[k][r]]]

\* the two pumps of each list are cancelled, the monitor is not
CancelledPumpsOnly(ids) ==
  [k \in Ids |-> [r \in Roles |->
     IF k \in ids /\ r \in Streams /\ task[k][r].pc \in {"read", "wait", "bcast"}
     THEN [pc |-> "cancelled", pos |-> task[k][r].pos, todo |-> {}]
     ELSE task[k][r]]]

\* task.cancel() on every task of every session, whatever the ids
CancelledEverySession(ids) ==
  [k \in Ids |-> [r \in Roles |->
     IF task[k][r].pc \in {"read", "wait", "bcast"}
     THEN [pc |-> "cancelled", pos |-> task[k][r].pos, todo |-> {}]
     ELSE task[k][r]]]

\* task.cancel() on every task of the ids, every request delivered: a task
\* suspended in an await gets CancelledError there and runs nothing but its
\* handler; a finished task is left as it is
Cancelled(ids) ==
  [k \in Ids |-> [r \in Roles |->
     IF k \in ids /\ task[k][r].pc \in {"read", "wait", "bcast"}
     THEN [pc |-> "cancelled", pos |-> task[k][r].pos, todo |-> {}]
     ELSE task[k][r]]]

\* tasks of the ids whose cancellation may be lost: wait_for (Python 3.11 and
\* before) runs queue.put in a task of its own and, when the awaiting task is
\* cancelled after that put has completed, returns the put's result instead
\* of raising CancelledError; the request is used up and the task runs on
Swallowing(ids) ==
  { kr \in ids \X Roles :
      /\ task[kr[1]][kr[2]].pc = "bcast"
      /\ \E q \in task[kr[1]][kr[2]].todo : ~QueueFull(q) }

\* what task.cancel() on every task of the ids can leave behind
CancelOutcomes(ids) ==
  { [k \in Ids |-> [r \in Roles |->
       IF <<k, r>> \in lost THEN task[k][r] ELSE Cancelled(ids)[k][r]]] :
    lost \in SUBSET Swallowing(ids) }

\* process.terminate() / process.kill() on the id's process
Signalled(id, st) ==
  [proc EXCEPT ![id].st = IF Alive(id) THEN st ELSE @]

\* stop() once the process is gone, without the pop of the registry entry
StopRemoveKeepsEntry(id, dbOk) ==
  /\ UNCHANGED active_terminals
  /\ removals' = [removals EXCEPT ![id] = @ + 1]
  /\ IF id \in output_tasks
     THEN /\ task' \in CancelOutcomes({id})
          /\ output_tasks' = output_tasks \ {id}
     ELSE UNCHANGED <<task, output_tasks>>
  /\ lock' = "free"
  /\ dbStatus' = RecordStopped(id, dbOk)
  /\ stopPc' = "idle"
  /\ stopId' = UnknownId
  /\ stopped' = [stopped EXCEPT ![id] = @ + 1]

\* stop() once the process is gone: pop, cancel the registered tasks, release
\* the lock, update the record
StopRemove(id, dbOk) ==
  /\ active_terminals' = active_terminals \ {id}
  /\ removals' = [removals EXCEPT ![id] = @ + 1]
  /\ IF id \in output_tasks
     THEN /\ task' \in CancelOutcomes({id})
          /\ output_tasks' = output_tasks \ {id}
     ELSE UNCHANGED <<task, output_tasks>>
  /\ lock' = "free"
  /\ dbStatus' = RecordStopped(id, dbOk)
  /\ stopPc' = "idle"
  /\ stopId' = UnknownId
  /\ stopped' = [stopped EXCEPT ![id] = @ + 1]

\* stop(id) that sends the signal and removes the session without the wait
StopWithoutWait(id, dbOk) ==
  /\ stopPc = "idle"
  /\ id \in KnownIds
  /\ lock = "free"
  /\ IF id \notin active_terminals
     THEN /\ raised' = Error("stop", id, "ValueError")
          /\ UNCHANGED <<active_terminals, output_tasks, lock, proc, task,
                         dbStatus, removals, stopPc, stopId, stopped>>
     ELSE /\ proc' = Signalled(id, "term")
          /\ StopRemove(id, dbOk)
          /\ UNCHANGED raised
  /\ UNCHANGED <<config, subscribers, spawnPc, written, cleanupPc, cList,
                 cTodo, cCur, nextQ, enq, got, statusBcast, dropped, subAt,
                 lateSpawn, request, handler>>

\* stop(id) gets the lock: ValueError if the id is not in active_terminals;
\* else terminate() and the wait for the process, which returns at once for a
\* process that has exited
StopBegin(id, dbOk) ==
  /\ stopPc = "idle"
  /\ id \in KnownIds
  /\ lock = "free"
  /\ IF id \notin active_terminals
     THEN /\ raised' = Error("stop", id, "ValueError")
          /\ UNCHANGED <<active_terminals, output_tasks, lock, proc, task,
                         dbStatus, removals, stopPc, stopId, stopped>>
     ELSE IF Exited(id)
     THEN /\ StopRemove(id, dbOk)
          /\ UNCHANGED <<proc, raised>>
     ELSE /\ proc' = Signalled(id, "term")
          /\ lock' = "stop"
          /\ stopPc' = "wait"
          /\ stopId' = id
          /\ UNCHANGED <<active_terminals, output_tasks, task, dbStatus,
                         removals, stopped, raised>>
  /\ UNCHANGED <<config, subscribers, spawnPc, written, cleanupPc, cList,
                 cTodo, cCur, nextQ, enq, got, statusBcast, dropped, subAt,
                 lateSpawn, request, handler>>

\* the wait of stop() returns: the process has exited
StopWaitDone(dbOk) ==
  /\ stopPc \in {"wait", "killwait"}
  /\ Exited(stopId)
  /\ StopRemove(stopId, dbOk)
  /\ UNCHANGED <<config, subscribers, spawnPc, proc, written, cleanupPc,
                 cList, cTodo, cCur, nextQ, enq, got, statusBcast, dropped,
                 subAt, lateSpawn, raised, request, handler>>

\* the process is gone by the time kill() is called on it
Reaped(id) == [proc EXCEPT ![id] = [st |-> "exited", rc |-> -SIGTERM]]

\* the 5 s wait of stop() times out: kill(), then wait again. When the
\* process exits just as the wait times out (killOk false), kill() raises
\* ProcessLookupError inside the TimeoutError handler, which no clause of the
\* try catches: stop() raises it, releasing the lock on the way out.
StopTimeout(killOk) ==
  /\ stopPc = "wait"
  /\ ~Exited(stopId)
  /\ IF killOk
     THEN /\ proc' = Signalled(stopId, "kill")
          /\ stopPc' = "killwait"
          /\ UNCHANGED <<lock, stopId, raised>>
     ELSE /\ proc' = Reaped(stopId)
          /\ lock' = "free"
          /\ stopPc' = "idle"
          /\ stopId' = UnknownId
          /\ raised' = Error("stop", stopId, "ProcessLookupError")
  /\ UNCHANGED <<config, active_terminals, subscribers, output_tasks, spawnPc,
                 written, task, cleanupPc, cList, cTodo, cCur, nextQ, enq,
                 got, dbStatus, removals, statusBcast, dropped, subAt,
                 lateSpawn, stopped, request, handler>>

\* --------------------------------------------------------------- cleanup()
\* cleanup() gets the lock and takes list(self.active_terminals.items())
CleanupBegin ==
  /\ cleanupPc = "idle"
  /\ lock = "free"
  /\ lock' = "cleanup"
  /\ cleanupPc' = "iter"
  /\ cList' = active_terminals
  /\ cTodo' = active_terminals
  /\ UNCHANGED <<config, active_terminals, subscribers, output_tasks, spawnPc,
                 proc, written, task, stopPc, stopId, cCur, nextQ, enq, got,
                 dbStatus, removals, statusBcast, dropped, subAt, lateSpawn,
                 stopped, raised, request, handler>>

\* the next process of the list: terminate() and the wait, which returns at
\* once for a process that has exited
CleanupNext(id) ==
  /\ cleanupPc = "iter"
  /\ id \in cTodo
  /\ cTodo' = cTodo \ {id}
  /\ proc' = Signalled(id, "term")
  /\ IF Exited(id)
     THEN UNCHANGED <<cleanupPc, cCur>>
     ELSE /\ cleanupPc' = "wait"
          /\ cCur' = id
  /\ UNCHANGED <<config, active_terminals, subscribers, output_tasks, lock,
                 spawnPc, written, task, stopPc, stopId, cList, nextQ, enq,
                 got, dbStatus, removals, statusBcast, dropped, subAt,
                 lateSpawn, stopped, raised, request, handler>>

\* the wait of cleanup() returns: the process has exited
CleanupWaitDone ==
  /\ cleanupPc = "wait"
  /\ Exited(cCur)
  /\ cleanupPc' = "iter"
  /\ UNCHANGED <<config, active_terminals, subscribers, output_tasks, lock,
                 spawnPc, proc, written, task, stopPc, stopId, cList, cTodo,
                 cCur, nextQ, enq, got, dbStatus, removals, statusBcast,
                 dropped, subAt, lateSpawn, stopped, raised, request, handler>>

\* the 5 s wait of cleanup() times out: kill(), no second wait. When kill()
\* raises (killOk false, as in stop()), cleanup() raises from inside the loop:
\* the lock is released, nothing is cleared and nothing cancelled.
CleanupTimeout(killOk) ==
  /\ cleanupPc = "wait"
  /\ ~Exited(cCur)
  /\ IF killOk
     THEN /\ proc' = Signalled(cCur, "kill")
          /\ cleanupPc' = "iter"
          /\ UNCHANGED lock
     ELSE /\ proc' = Reaped(cCur)
          /\ cleanupPc' = "raised"
          /\ lock' = "free"
  /\ UNCHANGED <<config, active_terminals, subscribers, output_tasks, spawnPc,
                 written, task, stopPc, stopId, cList, cTodo, cCur, nextQ,
                 enq, got, dbStatus, removals, statusBcast, dropped, subAt,
                 lateSpawn, stopped, raised, request, handler>>

\* the list is done: clear the maps, cancel every registered task, release
\* the lock, return
CleanupFinish ==
  /\ cleanupPc = "iter"
  /\ cTodo = {}
  /\ active_terminals' = {}
  /\ subscribers' = [i \in {} |-> {}]
  /\ task' \in CancelOutcomes(output_tasks)
  /\ output_tasks' = {}
  /\ lock' = "free"
  /\ cleanupPc' = "done"
  /\ UNCHANGED <<config, spawnPc, proc, written, stopPc, stopId, cList, cTodo,
                 cCur, nextQ, enq, got, dbStatus, removals, statusBcast,
                 dropped, subAt, lateSpawn, stopped, raised, request, handler>>

\* ------------------------------------------------- subscribe / unsubscribe
\* subscribe() without its limit check
SubscriberLimitUnchecked(id) == FALSE

\* the limit check of subscribe() with > for >=
SubscriberLimitOffByOne(id) ==
  Cardinality(SubscribersOf(id)) > MAX_SUBSCRIBERS_PER_TERMINAL

\* the limit check of subscribe()
SubscriberLimitReached(id) ==
  Cardinality(SubscribersOf(id)) >= MAX_SUBSCRIBERS_PER_TERMINAL

\* subscribe(id): ValueError at the limit, else a new queue is registered
Subscribe(id) ==
  /\ id \in KnownIds
  /\ lock = "free"
  /\ nextQ < MaxQueues
  /\ IF SubscriberLimitReached(id)
     THEN /\ raised' = Error("subscribe", id, "ValueError")
          /\ UNCHANGED <<subscribers, nextQ, subAt>>
     ELSE /\ UNCHANGED raised
          /\ nextQ' = nextQ + 1
          /\ subscribers' = SetKey(subscribers, id, SubscribersOf(id) \cup {nextQ'})
          /\ subAt' = [subAt EXCEPT ![nextQ'] =
                         IF id \in Ids THEN Len(written[id]["stdout"]) ELSE 0]
  /\ UNCHANGED <<config, active_terminals, output_tasks, lock, spawnPc, proc,
                 written, task, stopPc, stopId, cleanupPc, cList, cTodo, cCur,
                 enq, got, dbStatus, removals, statusBcast, dropped,
                 lateSpawn, stopped, request, handler>>

\* unsubscribe() with set.remove for set.discard: KeyError for a queue that
\* is not in the set
UnsubscribedByRemove(f, id, q) ==
  IF id \in DOMAIN f /\ q \notin f[id]
  THEN [subscribers |-> f, raised |-> Error("unsubscribe", id, "KeyError")]
  ELSE [subscribers |-> IF id \in DOMAIN f THEN [f EXCEPT ![id] = @ \ {q}] ELSE f,
        raised |-> NoError]

\* what unsubscribe(id, q) makes of the dict f and what it raises: for an id
\* that is a key, set.discard(q), which ignores a queue that is not in the
\* set; nothing for any other id
Unsubscribed(f, id, q) ==
  [subscribers |-> IF id \in DOMAIN f THEN [f EXCEPT ![id] = @ \ {q}] ELSE f,
   raised |-> NoError]

\* unsubscribe(id, q), under the lock
Unsubscribe(id, q) ==
  /\ id \in KnownIds
  /\ q \in 1..nextQ
  /\ lock = "free"
  /\ subscribers' = Unsubscribed(subscribers, id, q).subscribers
  /\ raised' = IF Unsubscribed(subscribers, id, q).raised = NoError
               THEN raised ELSE Unsubscribed(subscribers, id, q).raised
  /\ UNCHANGED <<config, active_terminals, output_tasks, lock, spawnPc, proc,
                 written, task, stopPc, stopId, cleanupPc, cList, cTodo, cCur,
                 nextQ, enq, got, dbStatus, removals, statusBcast, dropped,
                 subAt, lateSpawn, stopped, request, handler>>

\* the holder of a queue takes its next message (queue.get())
QueueGet(q) ==
  /\ q \in 1..nextQ
  /\ got[q] < Len(enq[q])
  /\ got' = [got EXCEPT ![q] = @ + 1]
  /\ UNCHANGED <<config, active_terminals, subscribers, output_tasks, lock,
                 spawnPc, proc, written, task, stopPc, stopId, cleanupPc,
                 cList, cTodo, cCur, nextQ, enq, dbStatus, removals,
                 statusBcast, dropped, subAt, lateSpawn, stopped, raised,
                 request, handler>>

\* ------------------------------------------------------- terminal_stream
\* the handler is at its end without a queue: the error message is sent and
\* the socket closed
Refused(h, id) ==
  [handler EXCEPT ![h] = [NoHandler EXCEPT !.pc = "returned", !.id = id]]

\* get(): the record of the id, None when there is none or the query fails
Get(id, dbOk) ==
  IF dbOk /\ id \in Ids /\ dbStatus[id] # "none" THEN dbStatus[id] ELSE "none"

\* a connection for id is accepted: "Terminal not found" when get() gives
\* None; else subscribe(id), under the lock: the ValueError of the limit is
\* answered with an error message, without a queue; else the queue is
\* registered and the "connected" message sent (sendOk), whose failure leaves
\* the try block for the finally block
StreamConnect(h, id, dbOk, sendOk) ==
  /\ handler[h].pc = "none"
  /\ \A j \in Handlers : j < h => handler[j].pc # "none"
  /\ IF Get(id, dbOk) = "none"
     THEN /\ handler' = Refused(h, id)
          /\ UNCHANGED <<subscribers, nextQ, subAt>>
     ELSE /\ lock = "free"
          /\ IF SubscriberLimitReached(id)
             THEN /\ handler' = Refused(h, id)
                  /\ UNCHANGED <<subscribers, nextQ, subAt>>
             ELSE /\ nextQ < MaxQueues
                  /\ nextQ' = nextQ + 1
                  /\ subscribers' = SetKey(subscribers, id, SubscribersOf(id) \cup {nextQ'})
                  /\ subAt' = [subAt EXCEPT ![nextQ'] = Len(written[id]["stdout"])]
                  /\ handler' = [handler EXCEPT ![h] =
                       [pc |-> IF sendOk THEN "loop" ELSE "finally",
                        id |-> id, queue |-> nextQ',
                        live |-> id \in active_terminals,
                        why |-> IF sendOk THEN "none" ELSE "connect",
                        unsubscribed |-> 0]]
  /\ UNCHANGED <<config, active_terminals, output_tasks, lock, spawnPc, proc,
                 written, task, stopPc, stopId, cleanupPc, cList, cTodo, cCur,
                 enq, got, dbStatus, removals, statusBcast, dropped,
                 lateSpawn, stopped, raised, request>>

\* the message at the head of the handler's queue
Head1(h) == enq[handler[h].queue][got[handler[h].queue] + 1]

\* queue.get() returns a message and it is sent to the client: the loop ends
\* when the send fails (WebSocketDisconnect or any other exception, sendOk
\* false) and on the stopped status message
StreamForward(h, sendOk) ==
  /\ handler[h].pc = "loop"
  /\ got[handler[h].queue] < Len(enq[handler[h].queue])
  /\ got' = [got EXCEPT ![handler[h].queue] = @ + 1]
  /\ handler' = [handler EXCEPT ![h] =
       IF ~sendOk THEN [@ EXCEPT !.pc = "finally", !.why = "send"]
       ELSE IF Head1(h).type = "status" /\ Head1(h).status = "stopped"
       THEN [@ EXCEPT !.pc = "finally", !.why = "stopped"]
       ELSE @]
  /\ UNCHANGED <<config, active_terminals, subscribers, output_tasks, lock,
                 spawnPc, proc, written, task, stopPc, stopId, cleanupPc,
                 cList, cTodo, cCur, nextQ, enq, dbStatus, removals,
                 statusBcast, dropped, subAt, lateSpawn, stopped, raised,
                 request>>

\* queue.get() times out after a second on the empty queue and the keepalive
\* ping is sent: the loop ends when the send fails, else it goes on
StreamPing(h, sendOk) ==
  /\ handler[h].pc = "loop"
  /\ got[handler[h].queue] = Len(enq[handler[h].queue])
  /\ handler' = [handler EXCEPT ![h] =
       IF sendOk THEN @ ELSE [@ EXCEPT !.pc = "finally", !.why = "ping"]]
  /\ UNCHANGED <<config, active_terminals, subscribers, output_tasks, lock,
                 spawnPc, proc, written, task, stopPc, stopId, cleanupPc,
                 cList, cTodo, cCur, nextQ, enq, got, dbStatus, removals,
                 statusBcast, dropped, subAt, lateSpawn, stopped, raised,
                 request>>

\* a finally block without the unsubscribe
ReturnedStillSubscribed(h) ==
  /\ handler[h].pc = "finally"
  /\ handler' = [handler EXCEPT ![h].pc = "returned"]
  /\ UNCHANGED <<config, active_terminals, subscribers, output_tasks, lock,
                 spawnPc, proc, written, task, stopPc, stopId, cleanupPc,
                 cList, cTodo, cCur, nextQ, enq, got, dbStatus, removals,
                 statusBcast, dropped, subAt, lateSpawn, stopped, raised,
                 request>>

\* the finally block: 'queue' is bound, so unsubscribe(id, queue), under the
\* lock; then the handler returns
StreamFinally(h) ==
  /\ handler[h].pc = "finally"
  /\ lock = "free"
  /\ subscribers' = Unsubscribed(subscribers, handler[h].id, handler[h].queue).subscribers
  /\ handler' = [handler EXCEPT ![h].pc = "returned", ![h].unsubscribed = @ + 1]
  /\ UNCHANGED <<config, active_terminals, output_tasks, lock, spawnPc, proc,
                 written, task, stopPc, stopId, cleanupPc, cList, cTodo, cCur,
                 nextQ, enq, got, dbStatus, removals, statusBcast, dropped,
                 subAt, lateSpawn, stopped, raised, request>>

\* ------------------------------------------------------- specifications
\* get_status(): the error dict when get() gives None, else the fields of the
\* record, with the process information when the id is in active_terminals
GetStatus(id, dbOk) ==
  IF Get(id, dbOk) = "none"
  THEN [error |-> "Terminal not found"]
  ELSE [id |-> id, status |-> Get(id, dbOk), pid |-> id \in active_terminals]

\* get_terminal_status: 404 when the dict has the key 'error'
NotFound(status) == "error" \in DOMAIN status

\* every operation, on every id
Next ==
  \/ \E k \in Ids, command \in Commands, working_dir \in WorkingDirs :
       SpawnEnter(k, command, working_dir)
  \/ \E k \in Ids, osOk \in BOOLEAN, dbOk \in BOOLEAN : SpawnLaunched(k, osOk, dbOk)
  \/ \E k \in Ids, dbOk \in BOOLEAN : SpawnStore(k, dbOk)
  \/ \E k \in Ids : SpawnDbFailed(k)
  \/ \E k \in Ids, s \in Streams, l \in RawLines : ProcWrite(k, s, l)
  \/ \E k \in Ids, rc \in NaturalExitCodes : ProcExit(k, rc)
  \/ \E k \in Ids, s \in Streams : PumpRead(k, s)
  \/ \E k \in Ids, r \in Roles, q \in Queues : BroadcastPut(k, r, q)
  \/ \E k \in Ids, r \in Roles, q \in Queues : BroadcastTimeout(k, r, q)
  \/ \E k \in Ids, dbOk \in BOOLEAN : MonitorExit(k, dbOk)
  \/ \E id \in AllIds, dbOk \in BOOLEAN : StopBegin(id, dbOk)
  \/ \E dbOk \in BOOLEAN : StopWaitDone(dbOk)
  \/ \E killOk \in BOOLEAN : StopTimeout(killOk)
  \/ CleanupBegin
  \/ \E id \in Ids : CleanupNext(id)
  \/ CleanupWaitDone
  \/ \E killOk \in BOOLEAN : CleanupTimeout(killOk)
  \/ CleanupFinish
  \/ \E id \in AllIds : Subscribe(id)
  \/ \E id \in AllIds, q \in Queues : Unsubscribe(id, q)
  \/ \E q \in Queues : QueueGet(q)

Spec == Init /\ [][Next]_vars

\* the sessions' lifecycle: spawn, exit, stop and cleanup on every id, with
\* processes that write nothing and no subscriber; the stop() calls are those
\* on a registered id, and every kill() succeeds
LifecycleNext ==
  \/ \E k \in Ids : SpawnCheck(k)
  \/ \E k \in Ids, osOk \in BOOLEAN, dbOk \in BOOLEAN : SpawnLaunched(k, osOk, dbOk)
  \/ \E k \in Ids, dbOk \in BOOLEAN : SpawnStore(k, dbOk)
  \/ \E k \in Ids : SpawnDbFailed(k)
  \/ \E k \in Ids : ProcExit(k, 0)
  \/ \E k \in Ids, s \in Streams : PumpRead(k, s)
  \/ \E k \in Ids : MonitorExit(k, TRUE)
  \/ \E id \in active_terminals : StopBegin(id, TRUE)
  \/ StopWaitDone(TRUE)
  \/ StopTimeout(TRUE)
  \/ CleanupBegin
  \/ \E id \in Ids : CleanupNext(id)
  \/ CleanupWaitDone
  \/ CleanupTimeout(TRUE)
  \/ CleanupFinish

LifecycleSpec == Init /\ [][LifecycleNext]_vars

TypeOK ==
  /\ active_terminals \subseteq Ids
  /\ DOMAIN subscribers \subseteq AllIds
  /\ output_tasks \subseteq Ids
  /\ lock \in {"free", "stop", "cleanup"}
  /\ cTodo \subseteq cList

\* one session and its streams: every operation on the first id, without
\* cleanup(); the only holder of the lock is then a stop() of the session, so
\* its spawn() never waits for the lock; the stop() calls are those on a
\* registered id, and every kill() succeeds
StreamIds == {1}

StreamNext ==
  \/ \E k \in StreamIds : SpawnCheck(k)
  \/ \E k \in StreamIds : SpawnLaunched(k, TRUE, TRUE)
  \/ \E k \in StreamIds, l \in RawLines : ProcWrite(k, "stdout", l)
  \/ \E k \in StreamIds : ProcWrite(k, "stderr", <<"h">>)
  \/ \E k \in StreamIds, rc \in NaturalExitCodes : ProcExit(k, rc)
  \/ \E k \in StreamIds, s \in Streams : PumpRead(k, s)
  \/ \E k \in StreamIds, r \in Roles, q \in Queues : BroadcastPut(k, r, q)
  \/ \E k \in StreamIds, r \in Roles, q \in Queues : BroadcastTimeout(k, r, q)
  \/ \E k \in StreamIds : MonitorExit(k, TRUE)
  \/ \E id \in active_terminals : StopBegin(id, TRUE)
  \/ StopWaitDone(TRUE)
  \/ StopTimeout(TRUE)
  \/ \E id \in StreamIds : Subscribe(id)
  \/ \E id \in StreamIds, q \in Queues : Unsubscribe(id, q)
  \/ \E q \in Queues : QueueGet(q)

StreamSpec == Init /\ [][StreamNext]_vars

\* one session under a configuration with room for two subscribers, its
\* process writing up to MaxBurst lines to stdout, each one "h" longer than
\* the one before: the pumps, the monitor, the subscribers (which stay
\* attached) and the consumers of their queues; no stop(), no cleanup()
BurstLine(n) == [j \in 1..n |-> "h"]

FanoutInit == Configured(FanoutConfig)

FanoutNext ==
  \/ \E k \in StreamIds : SpawnCheck(k)
  \/ \E k \in StreamIds : SpawnLaunched(k, TRUE, TRUE)
  \/ \E k \in StreamIds :
       ProcWriteWithin(k, "stdout", BurstLine(LinesWritten(k) + 1), MaxBurst)
  \/ \E k \in StreamIds : ProcExit(k, 0)
  \/ \E k \in StreamIds, s \in Streams : PumpRead(k, s)
  \/ \E k \in StreamIds, r \in Roles, q \in Queues : BroadcastPut(k, r, q)
  \/ \E k \in StreamIds, r \in Roles, q \in Queues : BroadcastTimeout(k, r, q)
  \/ \E k \in StreamIds : MonitorExit(k, TRUE)
  \/ \E id \in StreamIds : Subscribe(id)
  \/ \E q \in Queues : QueueGet(q)

FanoutSpec == FanoutInit /\ [][FanoutNext]_vars

\* stop() against the natural exit: every stop() call, on ids in and out of
\* the registry, with kill() succeeding or raising; no output, no subscriber,
\* no cleanup()
StopNext ==
  \/ \E k \in Ids : SpawnCheck(k)
  \/ \E k \in Ids : SpawnLaunched(k, TRUE, TRUE)
  \/ \E k \in Ids : SpawnStore(k, TRUE)
  \/ \E k \in Ids : ProcExit(k, 0)
  \/ \E k \in Ids, s \in Streams : PumpRead(k, s)
  \/ \E k \in Ids : MonitorExit(k, TRUE)
  \/ \E id \in AllIds : StopBegin(id, TRUE)
  \/ StopWaitDone(TRUE)
  \/ \E killOk \in BOOLEAN : StopTimeout(killOk)

StopSpec == Init /\ [][StopNext]_vars

\* cleanup() over sessions that exit by themselves, at the signal, or not
\* within the wait, with kill() succeeding or raising; no stop(), no output
SweepNext ==
  \/ \E k \in Ids : SpawnCheck(k)
  \/ \E k \in Ids : SpawnLaunched(k, TRUE, TRUE)
  \/ \E k \in Ids : SpawnStore(k, TRUE)
  \/ \E k \in Ids : ProcExit(k, 0)
  \/ \E k \in Ids, s \in Streams : PumpRead(k, s)
  \/ \E k \in Ids : MonitorExit(k, TRUE)
  \/ CleanupBegin
  \/ \E id \in Ids : CleanupNext(id)
  \/ CleanupWaitDone
  \/ \E killOk \in BOOLEAN : CleanupTimeout(killOk)
  \/ CleanupFinish

SweepSpec == Init /\ [][SweepNext]_vars

\* spawn() with every kind of argument, on sessions that exit by themselves
ValidationNext ==
  \/ \E k \in Ids, command \in Commands, working_dir \in WorkingDirs :
       SpawnEnter(k, command, working_dir)
  \/ \E k \in Ids, osOk \in BOOLEAN : SpawnLaunched(k, osOk, TRUE)
  \/ \E k \in Ids : ProcExit(k, 0)
  \/ \E k \in Ids, s \in Streams : PumpRead(k, s)
  \/ \E k \in Ids : MonitorExit(k, TRUE)

ValidationSpec == Init /\ [][ValidationNext]_vars

\* one session with room for two subscribers that attach and detach while
\* the pump and the monitor broadcast; nobody takes a message from a queue, so
\* a queue that holds a message is full
SnapshotNext ==
  \/ \E k \in StreamIds : SpawnCheck(k)
  \/ \E k \in StreamIds : SpawnLaunched(k, TRUE, TRUE)
  \/ \E k \in StreamIds : ProcWrite(k, "stdout", <<"h">>)
  \/ \E k \in StreamIds : ProcExit(k, 0)
  \/ \E k \in StreamIds, s \in Streams : PumpRead(k, s)
  \/ \E k \in StreamIds, r \in Roles, q \in Queues : BroadcastPut(k, r, q)
  \/ \E k \in StreamIds, r \in Roles, q \in Queues : BroadcastTimeout(k, r, q)
  \/ \E k \in StreamIds : MonitorExit(k, TRUE)
  \/ \E id \in StreamIds : Subscribe(id)
  \/ \E id \in StreamIds, q \in Queues : Unsubscribe(id, q)

SnapshotSpec == FanoutInit /\ [][SnapshotNext]_vars

\* natural exit and stop() with status updates that succeed or fail: the
\* commit of spawn() succeeds, every kill() succeeds, no output, no subscriber
PersistNext ==
  \/ \E k \in Ids : SpawnCheck(k)
  \/ \E k \in Ids : SpawnLaunched(k, TRUE, TRUE)
  \/ \E k \in Ids : SpawnStore(k, TRUE)
  \/ \E k \in Ids : ProcExit(k, 0)
  \/ \E k \in Ids, s \in Streams : PumpRead(k, s)
  \/ \E k \in Ids, dbOk \in BOOLEAN : MonitorExit(k, dbOk)
  \/ \E id \in active_terminals, dbOk \in BOOLEAN : StopBegin(id, dbOk)
  \/ \E dbOk \in BOOLEAN : StopWaitDone(dbOk)
  \/ StopTimeout(TRUE)

PersistSpec == Init /\ [][PersistNext]_vars

\* two sessions side by side whose pumps may fail in readline(), with
\* processes that exit by themselves
FaultInit == Configured(PairConfig)

FaultNext ==
  \/ \E k \in Ids : SpawnCheck(k)
  \/ \E k \in Ids : SpawnLaunched(k, TRUE, TRUE)
  \/ \E k \in Ids : ProcExit(k, 0)
  \/ \E k \in Ids, s \in Streams : PumpRead(k, s)
  \/ \E k \in Ids, s \in Streams : PumpFault(k, s)
  \/ \E k \in Ids : MonitorExit(k, TRUE)

FaultSpec == FaultInit /\ [][FaultNext]_vars


\* one session and the websocket connections to it and to an unknown id: the
\* process writes to stdout and exits by itself or is ended by stop() or by
\* cleanup(); every kill() succeeds; the client of a connection may go away
\* at any send
HandlerNext ==
  \/ \E k \in StreamIds : SpawnCheck(k)
  \/ \E k \in StreamIds : SpawnLaunched(k, TRUE, TRUE)
  \/ \E k \in StreamIds : SpawnStore(k, TRUE)
  \/ \E k \in StreamIds : ProcWrite(k, "stdout", <<"h">>)
  \/ \E k \in StreamIds : ProcExit(k, 0)
  \/ \E k \in StreamIds, s \in Streams : PumpRead(k, s)
  \/ \E k \in StreamIds, r \in Roles, q \in Queues : BroadcastPut(k, r, q)
  \/ \E k \in StreamIds, r \in Roles, q \in Queues : BroadcastTimeout(k, r, q)
  \/ \E k \in StreamIds : MonitorExit(k, TRUE)
  \/ \E id \in active_terminals : StopBegin(id, TRUE)
  \/ StopWaitDone(TRUE)
  \/ StopTimeout(TRUE)
  \/ CleanupBegin
  \/ \E id \in Ids : CleanupNext(id)
  \/ CleanupWaitDone
  \/ CleanupTimeout(TRUE)
  \/ CleanupFinish
  \/ \E h \in Handlers, id \in {UnknownId} \cup StreamIds, dbOk \in BOOLEAN,
        sendOk \in BOOLEAN : StreamConnect(h, id, dbOk, sendOk)
  \/ \E h \in Handlers, sendOk \in BOOLEAN : StreamForward(h, sendOk)
  \/ \E h \in Handlers, sendOk \in BOOLEAN : StreamPing(h, sendOk)
  \/ \E h \in Handlers : StreamFinally(h)

HandlerSpec == Init /\ [][HandlerNext]_vars

\* the connections to one session that writes nothing: the only message is
\* the monitor's status, so no queue is ever full; the session exits by
\* itself or is ended by stop() or by cleanup(), and the client of a
\* connection may go away at any send
ConnectionNext ==
  \/ \E k \in StreamIds : SpawnCheck(k)
  \/ \E k \in StreamIds : SpawnLaunched(k, TRUE, TRUE)
  \/ \E k \in StreamIds : SpawnStore(k, TRUE)
  \/ \E k \in StreamIds : ProcExit(k, 0)
  \/ \E k \in StreamIds, s \in Streams : PumpRead(k, s)
  \/ \E k \in StreamIds, q \in Queues : BroadcastPut(k, "monitor", q)
  \/ \E k \in StreamIds : MonitorExit(k, TRUE)
  \/ \E id \in active_terminals : StopBegin(id, TRUE)
  \/ StopWaitDone(TRUE)
  \/ StopTimeout(TRUE)
  \/ CleanupBegin
  \/ \E id \in Ids : CleanupNext(id)
  \/ CleanupWaitDone
  \/ CleanupTimeout(TRUE)
  \/ CleanupFinish
  \/ \E h \in Handlers, id \in {UnknownId} \cup StreamIds, dbOk \in BOOLEAN,
        sendOk \in BOOLEAN : StreamConnect(h, id, dbOk, sendOk)
  \/ \E h \in Handlers, sendOk \in BOOLEAN : StreamForward(h, sendOk)
  \/ \E h \in Handlers, sendOk \in BOOLEAN : StreamPing(h, sendOk)
  \/ \E h \in Handlers : StreamFinally(h)

ConnectionSpec == Init /\ [][ConnectionNext]_vars

\* two sessions side by side, each with a subscriber: either exits by itself
\* or is ended by stop(); no output, so the only messages are the monitors'
\* status messages and no queue is ever full; every kill() succeeds; of the
\* pumps, the stdout pump of each session is the one that reads its end of
\* file, the stderr pump stays in its readline() until it is cancelled
NeighbourNext ==
  \/ \E k \in Ids : SpawnCheck(k)
  \/ \E k \in Ids : SpawnLaunched(k, TRUE, TRUE)
  \/ \E k \in Ids : SpawnStore(k, TRUE)
  \/ \E k \in Ids : ProcExit(k, 0)
  \/ \E k \in Ids : PumpRead(k, "stdout")
  \/ \E k \in Ids, q \in Queues : BroadcastPut(k, "monitor", q)
  \/ \E k \in Ids : MonitorExit(k, TRUE)
  \/ \E id \in active_terminals : StopBegin(id, TRUE)
  \/ StopWaitDone(TRUE)
  \/ StopTimeout(TRUE)
  \/ \E id \in Ids : Subscribe(id)
  \/ \E q \in Queues : QueueGet(q)

NeighbourSpec == FaultInit /\ [][NeighbourNext]_vars

\* ------------------------------------------------------------ properties
\* a session: spawn() returned its id
Session(k) == spawnPc[k] = "ok"
\* a session that has reached Stopped: no longer in the registry
SessionStopped(k) == Session(k) /\ k \notin active_terminals
Running(k, r) == task[k][r].pc \in {"read", "wait", "bcast"}

\* C1: in every reachable state the registry holds at most MAX_TERMINALS
\* sessions
C1_RegistryWithinLimit == Cardinality(active_terminals) <= MAX_TERMINALS

\* C2: for every id, the monitor and the stop() calls together run the removal
\* of the id at most once: the others find it gone (stop raises) or are
\* cancelled before they get to it
C2_RemovedOnce == \A k \in Ids : removals[k] <= 1

\* C2 witness: the process exited by itself, stop() got the lock before the
\* monitor did, removed the session and cancelled the monitor
C2_StopWonRace ==
  \E k \in Ids : /\ proc[k] = [st |-> "exited", rc |-> 0]
                 /\ task[k]["monitor"].pc = "cancelled"
                 /\ removals[k] = 1
                 /\ cleanupPc = "idle"

\* C3: once a session is Stopped and its monitor has ended, exactly one status
\* message has been broadcast for it
C3_ExactlyOneStatus ==
  \A k \in Ids :
    (SessionStopped(k) /\ ~Running(k, "monitor")) => statusBcast[k] = 1

\* C4: no step puts a stdout or stderr message of a Stopped session in a queue
C4_NoOutputAfterStopped ==
  [][\A k \in Ids, q \in Queues :
       (SessionStopped(k) /\ Len(enq'[q]) > Len(enq[q]))
         => LET m == enq'[q][Len(enq'[q])]
            IN ~(m.terminal_id = k /\ m.type \in Streams)]_vars

\* C5: no session is absent from the registry while one of its pumps runs
C5_NoPumpOutlivesSession ==
  \A k \in Ids : SessionStopped(k) => \A s \in Streams : ~Running(k, s)

\* C6: once cleanup() has returned, and as long as no spawn() call is made
\* after that, the registry is empty and no task is runnable
C6_EmptyAfterCleanup ==
  (cleanupPc = "done" /\ ~lateSpawn)
    => /\ active_terminals = {}
       /\ DOMAIN subscribers = {}
       /\ output_tasks = {}
       /\ \A k \in Ids, r \in Roles : ~Running(k, r)

\* C7: a spawn() call that has failed has left nothing of its id in the
\* registry and no process running
C7_FailedSpawnLeavesNothing ==
  \A k \in Ids :
    spawnPc[k] \in {"limit", "oserr", "dberr"}
      => /\ k \notin active_terminals
         /\ k \notin DOMAIN subscribers
         /\ k \notin output_tasks
         /\ ~Alive(k)

\* C8: no session id ever has more than MAX_SUBSCRIBERS_PER_TERMINAL queues
\* registered
C8_SubscribersWithinLimit ==
  \A id \in DOMAIN subscribers :
    Cardinality(subscribers[id]) <= MAX_SUBSCRIBERS_PER_TERMINAL

\* C8 witness: a session at the limit whose queue is not the first that was
\* created (one was unsubscribed, another subscribed), during a broadcast
C8_AtLimitDuringBroadcast ==
  \E id \in DOMAIN subscribers :
    /\ Cardinality(subscribers[id]) = MAX_SUBSCRIBERS_PER_TERMINAL
    /\ nextQ > MAX_SUBSCRIBERS_PER_TERMINAL
    /\ \E k \in Ids, r \in Roles : task[k][r].pc = "bcast"

\* C9: no task holds the registry lock while it is suspended in the wait for a
\* process to exit
C9_LockNotHeldAcrossWait ==
  /\ ~(lock = "stop" /\ stopPc \in {"wait", "killwait"})
  /\ ~(lock = "cleanup" /\ cleanupPc = "wait")

\* the stdout message that carries exactly the text `line`
StdoutMessage(k, line) == [terminal_id |-> k, type |-> "stdout", line |-> line]
Enqueued(q, m) == \E j \in 1..Len(enq[q]) : enq[q][j] = m
\* q subscribed to the session before its i-th stdout line was written
AttachedBefore(q, i) == subAt[q] < i

PumpFinished(k, i, q) ==
  LET p == task[k]["stdout"]
  IN \/ i < p.pos
     \/ /\ i = p.pos
        /\ \/ p.pc \in {"read", "done"}
           \/ p.pc = "bcast" /\ q \notin p.todo

DeliveredLines(q, k, s) ==
  LET OfStream(m) == m.terminal_id = k /\ m.type = s
      ms == SelectSeq(enq[q], OfStream)
  IN [i \in 1..Len(ms) |-> ms[i].line]

\* the lines the pump of stream s has read so far, as it decodes them
LinesRead(k, s) ==
  [i \in 1..task[k][s].pos |-> DecodedLine(written[k][s][i])]

\* a is what is left of b when some of its elements are taken out
RECURSIVE IsSubSeq(_, _)
IsSubSeq(a, b) ==
  IF a = << >> THEN TRUE
  ELSE IF b = << >> THEN FALSE
  ELSE IF Head(a) = Head(b) THEN IsSubSeq(Tail(a), Tail(b))
  ELSE IsSubSeq(a, Tail(b))

\* C11: for every stream of a session and every queue, the lines of the
\* stream's messages in the queue are in the order in which the pump read
\* them (some may be missing, none is out of place)
C11_LinesInOrder ==
  \A k \in Ids, s \in Streams, q \in Queues :
    IsSubSeq(DeliveredLines(q, k, s), LinesRead(k, s))

\* C11 witness: a queue holds both lines of the process, in order, although
\* a put of one of them on the other queue timed out
C11_InOrderDespiteTimeout ==
  \E k \in Ids, q \in Queues, q2 \in Queues :
    /\ q2 # q
    /\ DeliveredLines(q, k, "stdout") = <<BurstLine(1), BurstLine(2)>>
    /\ \E m \in {StdoutMessage(k, BurstLine(1)), StdoutMessage(k, BurstLine(2))} :
         <<q2, m>> \in dropped

\* C12: every step of a broadcast deals with one queue of its snapshot: it
\* puts the message there, or, the queue being full, drops it for that queue
\* and touches no queue; the other queues of the snapshot are still to be
\* served, and after the last one the pump reads on (the monitor ends)
C12_TimeoutDropsForOneOnly ==
  [][\A k \in Ids, r \in Roles :
       (task[k][r].pc = "bcast" /\ task'[k][r] # task[k][r])
         => \E q \in task[k][r].todo :
              LET rest == task[k][r].todo \ {q}
              IN /\ task'[k][r].todo = rest
                 /\ task'[k][r].pos = task[k][r].pos
                 /\ task'[k][r].pc = IF rest # {} THEN "bcast"
                                     ELSE IF r = "monitor" THEN "done"
                                     ELSE "read"
                 /\ IF QueueFull(q)
                    THEN /\ enq' = enq
                         /\ dropped' = dropped \cup {<<q, CurrentMessage(k, r)>>}
                    ELSE /\ enq' = [enq EXCEPT
                                      ![q] = Append(@, CurrentMessage(k, r))]
                         /\ dropped' = dropped]_vars

\* C12 witness: a line was dropped for one queue, the other queue has it, and
\* the pump went on to the end of the stream
C12_OtherQueueServed ==
  \E k \in Ids, q \in Queues, q2 \in Queues :
    /\ q2 # q
    /\ <<q, StdoutMessage(k, BurstLine(2))>> \in dropped
    /\ Enqueued(q2, StdoutMessage(k, BurstLine(2)))
    /\ task[k]["stdout"].pc = "done"

\* C13: stop() sends the terminate signal first, to a running process; the
\* kill signal is sent only from the timed-out wait that follows, to a
\* process that has not exited; and the step in which stop() removes the
\* session starts with the process exited and ends with the entry gone and
\* none of the session's tasks running or registered
C13_GracefulThenForced ==
  [][\A k \in Ids :
       /\ (proc'[k].st = "term" /\ proc[k].st # "term")
            => /\ proc[k].st = "run"
               /\ stopPc = "idle" /\ stopPc' = "wait" /\ stopId' = k
       /\ (proc'[k].st = "kill" /\ proc[k].st # "kill")
            => /\ proc[k].st = "term"
               /\ stopPc = "wait" /\ stopId = k /\ stopPc' = "killwait"
       /\ stopped'[k] > stopped[k]
            => /\ Exited(k)
               /\ k \in active_terminals /\ k \notin active_terminals'
               /\ k \notin output_tasks'
               /\ \A r \in Roles :
                    task'[k][r].pc \notin {"read", "wait", "bcast"}]_vars

\* C13 witness: one session stopped by the terminate signal, another by the
\* kill signal after the wait timed out, the monitors of both cancelled
C13_StoppedBothWays ==
  \E k \in Ids, j \in Ids :
    /\ stopped[k] = 1 /\ proc[k] = [st |-> "exited", rc |-> -SIGTERM]
    /\ stopped[j] = 1 /\ proc[j] = [st |-> "exited", rc |-> -SIGKILL]
    /\ task[k]["monitor"].pc = "cancelled"
    /\ task[j]["monitor"].pc = "cancelled"

\* everything but the record of the last exception
StateButRaised ==
  <<config, active_terminals, subscribers, output_tasks, lock, spawnPc, proc,
    written, task, stopPc, stopId, cleanupPc, cList, cTodo, cCur, nextQ, enq,
    got, dbStatus, removals, statusBcast, dropped, subAt, lateSpawn, stopped>>

\* C14: a stop() call fails only with not-found (ValueError), does so only for
\* an id that is not in the registry, and then changes nothing; a stop() call
\* succeeds only on an id in the registry, and at most once for an id
C14_OneStopSucceedsOthersNotFound ==
  [][/\ (raised' # raised /\ raised'.op = "stop")
          => /\ raised'.type = "ValueError"
             /\ raised'.id \notin active_terminals
             /\ UNCHANGED StateButRaised
     /\ \A k \in Ids :
          stopped'[k] > stopped[k]
            => (k \in active_terminals /\ stopped[k] = 0)]_vars

\* C15: a spawn() call made while the registry holds MAX_TERMINALS sessions
\* fails with the limit error in the step that makes the check, which leaves
\* the registry, the processes, the tasks and the records as they were; the
\* call launches no process then or later; a call made below the limit goes
\* on to launch
C15_LimitErrorLeavesRegistry ==
  [][\A k \in Ids :
       /\ (spawnPc[k] = "idle" /\ spawnPc'[k] # "idle")
            => IF Cardinality(active_terminals) >= MAX_TERMINALS
               THEN /\ spawnPc'[k] = "limit"
                    /\ UNCHANGED <<active_terminals, subscribers, output_tasks,
                                   proc, task, dbStatus>>
               ELSE spawnPc'[k] = "launch"
       /\ spawnPc[k] = "limit"
            => (proc[k].st = "none" /\ spawnPc'[k] = "limit")]_vars

\* C15 witness: a call has failed with the limit error while the session
\* that fills the registry is running with its three tasks
C15_RejectedWhileFull ==
  \E k \in Ids, j \in Ids :
    /\ spawnPc[k] = "limit"
    /\ active_terminals = {j}
    /\ Alive(j)
    /\ \A r \in Roles : Running(j, r)

\* C16: no step adds a queue to a subscriber set that holds
\* MAX_SUBSCRIBERS_PER_TERMINAL queues; a subscribe() call that fails does so
\* with the limit error (ValueError), on a set at the limit, and changes
\* nothing; a call that creates a queue raises nothing
C16_LimitErrorAddsNoQueue ==
  [][/\ \A id \in AllIds :
          Cardinality(SubscribersOf(id)) >= MAX_SUBSCRIBERS_PER_TERMINAL
            => (id \in DOMAIN subscribers'
                  => subscribers'[id] \subseteq SubscribersOf(id))
     /\ (raised' # raised /\ raised'.op = "subscribe")
          => /\ raised'.type = "ValueError"
             /\ Cardinality(SubscribersOf(raised'.id))
                  >= MAX_SUBSCRIBERS_PER_TERMINAL
             /\ UNCHANGED StateButRaised
     /\ nextQ' # nextQ => raised' = raised]_vars

\* C16 witness: the last call to fail was a subscribe() on a session at the
\* limit, whose one queue is still the only queue ever created
C16_RejectedAtLimit ==
  \E id \in Ids :
    /\ raised = Error("subscribe", id, "ValueError")
    /\ Cardinality(SubscribersOf(id)) = MAX_SUBSCRIBERS_PER_TERMINAL
    /\ nextQ = MAX_SUBSCRIBERS_PER_TERMINAL

\* C17: once cleanup() has returned, every session that was in the registry
\* when it was called has a process that has exited or been sent the kill
\* signal, and a record with status stopped
C17_SweptSessionsStopped ==
  cleanupPc = "done"
    => \A k \in cList :
         /\ proc[k].st \in {"exited", "kill"}
         /\ dbStatus[k] = "stopped"

\* C18: cleanup() never raises, and once it has ended every session that was
\* in the registry when it was called has been sent a signal or has exited,
\* is out of the registry, and has none of its tasks running or registered
C18_SweepNeverAborted ==
  /\ cleanupPc # "raised"
  /\ cleanupPc \in {"done", "raised"}
       => \A k \in cList :
            /\ proc[k].st \in {"exited", "term", "kill"}
            /\ (spawnPc[k] = "ok" => k \notin active_terminals)
            /\ k \notin output_tasks
            /\ \A r \in Roles : ~Running(k, r)

\* C19: get_status(id) is not-found for the unknown id, and for every session
\* whose process has exited, whose final status message has been broadcast
\* and which has been removed from the registry
C19_NotFoundOnceRemoved ==
  /\ NotFound(GetStatus(UnknownId, TRUE))
  /\ \A k \in Ids :
       (Exited(k) /\ statusBcast[k] >= 1 /\ k \notin active_terminals)
         => NotFound(GetStatus(k, TRUE))

\* get_status(id) is not-found for the unknown id and for an id that no
\* spawn() has recorded
C19_NotFoundWhenNoRecord ==
  \A id \in AllIds :
    (id = UnknownId \/ dbStatus[id] = "none") => NotFound(GetStatus(id, TRUE))

\* C20: the step in which spawn() returns its session finds the id out of the
\* registry, without a record and without tasks, and leaves it in the registry
\* with an empty subscriber set, its record active, and its three tasks (the
\* stdout pump, the stderr pump and the monitor) started and registered; the
\* step is not an exit of the process
C20_SpawnReturnsRegistered ==
  [][\A k \in Ids :
       (spawnPc[k] # "ok" /\ spawnPc'[k] = "ok")
         => /\ k \notin active_terminals
            /\ k \notin DOMAIN subscribers
            /\ k \notin output_tasks
            /\ dbStatus[k] = "none"
            /\ \A r \in Roles : task[k][r] = NoTask
            /\ k \in active_terminals'
            /\ k \in DOMAIN subscribers'
            /\ subscribers'[k] = {}
            /\ dbStatus'[k] = "active"
            /\ k \in output_tasks'
            /\ DOMAIN task'[k] = {"stdout", "stderr", "monitor"}
            /\ \A s \in Streams : task'[k][s].pc = "read"
            /\ task'[k]["monitor"].pc = "wait"
            /\ proc'[k].st \in {"run", proc[k].st}
            /\ written' = written]_vars

\* spawn() has returned a session whose process is running and has written
\* nothing, with its three tasks started and no subscriber
C20_ReturnedWhileRunning ==
  \E k \in Ids :
    /\ spawnPc[k] = "ok"
    /\ proc[k].st = "run"
    /\ LinesWritten(k) = 0
    /\ k \in active_terminals
    /\ SubscribersOf(k) = {}
    /\ k \in output_tasks
    /\ \A r \in Roles : Running(k, r)

\* C21: a spawn() call made below the limit with a command that is not in the
\* allowed set, or a working directory that path validation rejects, fails
\* with the validation error in the step that enters it, leaving the
\* registry, the processes, the tasks and the records as they were; a call
\* that failed so never has a process or a registry entry
C21_InvalidInputRejected ==
  [][\A k \in Ids :
       /\ (/\ spawnPc[k] = "idle" /\ spawnPc'[k] # "idle"
           /\ ~AtCapacity
           /\ \/ request'.command \notin ALLOWED_COMMANDS
              \/ ~ValidatePath(request'.working_dir))
            => /\ request'.id = k
               /\ spawnPc'[k] = "invalid"
               /\ UNCHANGED <<active_terminals, subscribers, output_tasks,
                              proc, task, dbStatus>>
       /\ spawnPc[k] = "invalid"
            => /\ spawnPc'[k] = "invalid"
               /\ proc'[k].st = "none"
               /\ k \notin active_terminals']_vars

\* a call with a disallowed command was rejected below the limit
C21_RejectedBelowLimit ==
  \E k \in Ids :
    /\ spawnPc[k] = "invalid"
    /\ request.id = k
    /\ request.command \notin ALLOWED_COMMANDS
    /\ ~AtCapacity
    /\ proc[k].st = "none"

\* task.cancel() has been called on the tasks of session k: stop() and
\* cleanup() take the id out of output_tasks as they cancel its tasks
CancelRequested(k) == spawnPc[k] = "ok" /\ k \notin output_tasks

\* C22: no step puts a stdout or stderr message of a session in a queue once
\* the session's pumps have been cancelled
C22_CancelledPumpIsSilent ==
  [][\A k \in Ids :
       CancelRequested(k)
         => \A q \in Queues :
              Len(enq'[q]) > Len(enq[q])
                => LET m == enq'[q][Len(enq'[q])]
                   IN ~(m.terminal_id = k /\ m.type \in Streams)]_vars

\* a process that was sent SIGKILL exits
KilledExits == \E k \in Ids : proc[k].st = "kill" /\ ProcExit(k, 0)

\* the session of StreamSpec with the event loop running every coroutine
\* that can run, every timeout expiring and every killed process exiting
StreamFairSpec ==
  /\ StreamSpec
  /\ WF_vars(KilledExits)
  /\ WF_vars(StopWaitDone(TRUE))
  /\ WF_vars(StopTimeout(TRUE))
  /\ \A k \in StreamIds, s \in Streams : WF_vars(PumpRead(k, s))
  /\ \A k \in StreamIds, r \in Roles :
       WF_vars(\E q \in Queues : BroadcastPut(k, r, q) \/ BroadcastTimeout(k, r, q))

\* every stop() call that has started its wait ends
StopReturns == (stopPc # "idle") ~> (stopPc = "idle")

\* every pump of a session whose process has exited or whose tasks were
\* cancelled ends
PumpsEnd ==
  \A k \in StreamIds, s \in Streams :
    ((Exited(k) \/ CancelRequested(k)) /\ Running(k, s)) ~> ~Running(k, s)

\* the lifecycle with cleanup() scheduled and its timeouts expiring
LifecycleFairSpec ==
  /\ LifecycleSpec
  /\ WF_vars(\E id \in Ids : CleanupNext(id))
  /\ WF_vars(CleanupWaitDone)
  /\ WF_vars(CleanupTimeout(TRUE))
  /\ WF_vars(CleanupFinish)

\* every cleanup() call that has the lock returns
CleanupReturns == (cleanupPc \in {"iter", "wait"}) ~> (cleanupPc = "done")

\* C23: _broadcast is called with a session's status message at most once,
\* and never for a session that a stop() call has stopped: its monitor was
\* cancelled before it could handle the exit
C23_AtMostOneStatus ==
  \A k \in Ids :
    /\ statusBcast[k] <= 1
    /\ stopped[k] >= 1
         => /\ statusBcast[k] = 0
            /\ task[k]["monitor"].pc = "cancelled"

\* one session has exited by itself and had its status broadcast, another was
\* stopped by stop() while its process was running
C23_ExitedAndStopped ==
  \E j \in Ids, k \in Ids :
    /\ statusBcast[j] = 1 /\ stopped[j] = 0
    /\ stopped[k] = 1 /\ proc[k].rc # 0 /\ Exited(k)

\* the step offers message m to queue q: puts it, or gives up on a full queue
OfferedInStep(q, m) ==
  \/ enq' = [enq EXCEPT ![q] = Append(@, m)]
  \/ <<q, m>> \in dropped' /\ enq' = enq

\* the queues of the snapshot that task r of session k is done with in the step
ServedInStep(k, r) ==
  task[k][r].todo \ (IF task'[k][r].pc = "bcast" THEN task'[k][r].todo ELSE {})

\* C24: a broadcast starts with the subscriber set of that moment as its
\* snapshot; while it lasts, whatever attaches or detaches, the snapshot only
\* loses the queue the step offers the message to, one at a time, and the
\* broadcast returns to its caller when none is left; no message enters a
\* queue but from a broadcast that had the queue in its snapshot
C24_SnapshotServed ==
  [][/\ \A k \in Ids, r \in Roles :
          /\ (task[k][r].pc # "bcast" /\ task'[k][r].pc = "bcast")
               => task'[k][r].todo = SubscribersOf(k) /\ subscribers' = subscribers
          /\ (task[k][r].pc = "bcast" /\ task'[k][r].pc # "cancelled")
               => /\ task'[k][r].pc \in {"bcast", IF r = "monitor" THEN "done" ELSE "read"}
                  /\ task'[k][r].pos = task[k][r].pos
                  /\ task'[k][r].pc = "bcast" => task'[k][r].todo \subseteq task[k][r].todo
                  /\ task'[k][r].pc = "bcast" => task'[k][r].todo # {}
                  /\ Cardinality(ServedInStep(k, r)) <= 1
                  /\ \A q \in ServedInStep(k, r) :
                       OfferedInStep(q, CurrentMessage(k, r))
     /\ \A q \in Queues :
          Len(enq'[q]) > Len(enq[q])
            => \E k \in Ids, r \in Roles :
                 /\ task[k][r].pc = "bcast"
                 /\ ServedInStep(k, r) = {q}
                 /\ enq'[q] = Append(enq[q], CurrentMessage(k, r))]_vars

\* a broadcast is suspended with a queue still to serve that has detached
\* since the snapshot, while a queue that attached since is not in it
C24_ChangedDuringBroadcast ==
  \E k \in Ids, r \in Roles, q1 \in Queues, q2 \in Queues :
    /\ task[k][r].pc = "bcast"
    /\ q1 \in task[k][r].todo
    /\ q1 \notin SubscribersOf(k)
    /\ q2 \in SubscribersOf(k)
    /\ q2 \notin task[k][r].todo
    /\ ~Enqueued(q2, CurrentMessage(k, r))
    /\ <<q2, CurrentMessage(k, r)>> \notin dropped

\* C25: for every id and queue, unsubscribe(id, q) raises nothing, a second
\* unsubscribe(id, q) raises nothing and leaves the subscriber sets as the
\* first left them, and for an id that is not a key or a queue that is not in
\* the id's set the call changes nothing
C25_UnsubscribeIdempotent ==
  \A id \in AllIds, q \in Queues :
    LET once == Unsubscribed(subscribers, id, q)
        twice == Unsubscribed(once.subscribers, id, q)
    IN /\ once.raised = NoError
       /\ twice.raised = NoError
       /\ twice.subscribers = once.subscribers
       /\ q \notin SubscribersOf(id) => once.subscribers = subscribers
       /\ q \in SubscribersOf(id)
            => once.subscribers = [subscribers EXCEPT ![id] = @ \ {q}]

\* a queue that subscribe() returned for a session has been unsubscribed from
\* it, nothing was raised, and the session's set is still a key
C25_Unsubscribed ==
  \E id \in Ids, q \in 1..nextQ :
    /\ id \in DOMAIN subscribers
    /\ q \notin subscribers[id]
    /\ \A i \in DOMAIN subscribers : q \notin subscribers[i]
    /\ raised = NoError

\* C26: every step in which the monitor or stop() removes a session, whether
\* the status update of its record succeeds or fails, takes the id out of the
\* registry and either (the monitor) calls _broadcast with the status message
\* over the subscribers of that moment, or (stop()) cancels the tasks, takes
\* them out of output_tasks, releases the lock and returns without raising
C26_LifecycleDespiteDbFailure ==
  [][\A k \in Ids :
       removals'[k] # removals[k]
         => /\ removals'[k] = removals[k] + 1
            /\ k \in active_terminals
            /\ k \notin active_terminals'
            /\ dbStatus'[k] \in {"stopped", dbStatus[k]}
            /\ \/ /\ statusBcast'[k] = statusBcast[k] + 1
                  /\ task'[k]["monitor"].pc
                       = IF SubscribersOf(k) = {} THEN "done" ELSE "bcast"
                  /\ task'[k]["monitor"].todo = SubscribersOf(k)
                  /\ \A s \in Streams : task'[k][s] = task[k][s]
                  /\ UNCHANGED <<stopped, raised, output_tasks, lock>>
               \/ /\ stopped'[k] = stopped[k] + 1
                  /\ \A r \in Roles : task'[k][r].pc \in {"cancelled", "done"}
                  /\ k \notin output_tasks'
                  /\ lock' = "free"
                  /\ stopPc' = "idle"
                  /\ UNCHANGED <<statusBcast, raised>>]_vars

\* the status update failed both for a session that exited by itself, whose
\* status was broadcast all the same, and for a session that stop() stopped
C26_RemovedWithFailedUpdate ==
  \E j \in Ids, k \in Ids :
    /\ removals[j] = 1 /\ statusBcast[j] = 1 /\ dbStatus[j] = "active"
    /\ j \notin active_terminals
    /\ removals[k] = 1 /\ stopped[k] = 1 /\ dbStatus[k] = "active"
    /\ k \notin active_terminals /\ k \notin output_tasks
    /\ task[k]["monitor"].pc = "cancelled"

\* a pump of session k has been ended by an exception
Faulted(k) == \E s \in Streams : task[k][s].pc = "failed"

\* C27: a session one of whose pumps was ended by an exception is out of the
\* registry and has no task running
C27_FaultCleansSession ==
  \A k \in Ids :
    Faulted(k) => /\ k \notin active_terminals
                  /\ \A r \in Roles : ~Running(k, r)

\* the step in which a pump fails changes nothing of any other session, and
\* nothing of its own but the pump
FaultIsolated ==
  [][\A k \in Ids, s \in Streams :
       (task[k][s].pc # "failed" /\ task'[k][s].pc = "failed")
         => /\ \A j \in Ids \ {k} : task'[j] = task[j] /\ proc'[j] = proc[j]
            /\ UNCHANGED <<active_terminals, subscribers, output_tasks, lock>>]_vars

\* C28: a session whose record is stopped is out of the registry; from then
\* on no step puts its id back or makes its record active again; and every
\* step that puts an id in the registry puts one that has no record and was
\* never removed
C28_StoppedIsTerminal ==
  [][\A k \in Ids :
       /\ dbStatus'[k] = "stopped" => k \notin active_terminals'
       /\ dbStatus[k] = "stopped" => dbStatus'[k] = "stopped"
       /\ (k \notin active_terminals /\ k \in active_terminals')
            => /\ dbStatus[k] = "none"
               /\ removals[k] = 0]_vars

\* a session has been removed and marked stopped, and a later spawn() has a
\* session under another id in the registry
C28_NewIdAfterStopped ==
  \E j \in Ids, k \in Ids :
    /\ j # k
    /\ dbStatus[j] = "stopped" /\ j \notin active_terminals /\ removals[j] = 1
    /\ dbStatus[k] = "active" /\ k \in active_terminals

\* C29: every step that puts a session's status message in a queue finds the
\* session's record stopped and the session still in the registry
C29_StatusBroadcastWhileRegistered ==
  [][\A k \in Ids, q \in Queues :
       (/\ Len(enq'[q]) > Len(enq[q])
        /\ enq'[q][Len(enq'[q])].terminal_id = k
        /\ enq'[q][Len(enq'[q])].type = "status")
         => /\ dbStatus[k] = "stopped"
            /\ k \in active_terminals]_vars

\* the order of the code: every step that puts a session's status message in
\* a queue finds the session out of the registry and its record stopped
StatusBroadcastAfterRemoval ==
  [][\A k \in Ids, q \in Queues :
       (/\ Len(enq'[q]) > Len(enq[q])
        /\ enq'[q][Len(enq'[q])].terminal_id = k
        /\ enq'[q][Len(enq'[q])].type = "status")
         => /\ dbStatus[k] = "stopped"
            /\ k \notin active_terminals
            /\ removals[k] = 1]_vars

\* C30: once the monitor has finished with a natural exit, or a stop() call
\* on the session has returned, the id is a key of none of active_terminals,
\* output_tasks and subscribers
C30_WholeEntryRemoved ==
  \A k \in Ids :
    (task[k]["monitor"].pc = "done" \/ stopped[k] >= 1)
      => /\ k \notin active_terminals
         /\ k \notin output_tasks
         /\ k \notin DOMAIN subscribers

\* what the code removes: the process handle in both cases, the task handles
\* in stop() only, the subscriber set in neither
ProcessHandleRemoved ==
  \A k \in Ids :
    /\ (task[k]["monitor"].pc = "done" \/ stopped[k] >= 1)
         => k \notin active_terminals
    /\ stopped[k] >= 1 => k \notin output_tasks


\* C31: a queue is registered only for a session that is in the registry:
\* every step that adds a queue to the subscriber set of an id (creating the
\* set when there is none) finds the id in active_terminals
C31_SubscribedOnlyWhileRegistered ==
  [][\A id \in DOMAIN subscribers' :
       subscribers'[id] \ SubscribersOf(id) # {} => id \in active_terminals]_vars

\* what the handler's get() does keep out: an id without a database record
\* gets no queue and no subscriber set
NoRecordNoQueue ==
  \A h \in Handlers :
    handler[h].queue # 0 => /\ handler[h].id \in Ids
                            /\ dbStatus[handler[h].id] # "none"

\* the sessions and connections of HandlerSpec with the event loop running
\* every coroutine that can run, every timeout expiring, every killed process
\* exiting, and clients that stay connected: a message taken from a queue is
\* sent. Nothing obliges a client to go away, and a keepalive ping that is
\* sent changes nothing.
HandlerFairSpec ==
  /\ HandlerSpec
  /\ WF_vars(KilledExits)
  /\ WF_vars(StopWaitDone(TRUE))
  /\ WF_vars(StopTimeout(TRUE))
  /\ WF_vars(\E id \in Ids : CleanupNext(id))
  /\ WF_vars(CleanupWaitDone)
  /\ WF_vars(CleanupTimeout(TRUE))
  /\ WF_vars(CleanupFinish)
  /\ \A k \in StreamIds, s \in Streams : WF_vars(PumpRead(k, s))
  /\ \A k \in StreamIds, r \in Roles :
       WF_vars(\E q \in Queues : BroadcastPut(k, r, q) \/ BroadcastTimeout(k, r, q))
  /\ \A k \in StreamIds : WF_vars(MonitorExit(k, TRUE))
  /\ \A h \in Handlers : WF_vars(StreamForward(h, TRUE))
  /\ \A h \in Handlers : WF_vars(StreamFinally(h))

\* connection h subscribed to its session while it was in the registry, the
\* session has since been removed, and the handler is in its forwarding loop
LoopAfterEnd(h) ==
  /\ handler[h].pc = "loop"
  /\ handler[h].live
  /\ handler[h].id \notin active_terminals

\* C32: every handler that subscribed to a session leaves its forwarding
\* loop after the session has ended, however it ended
C32_HandlerLeavesLoop ==
  \A h \in Handlers : LoopAfterEnd(h) ~> handler[h].pc # "loop"

\* the natural exit alone: a handler whose session ended with the monitor's
\* status broadcast leaves its loop
LeavesLoopAfterStatus ==
  \A h \in Handlers :
    (LoopAfterEnd(h) /\ statusBcast[handler[h].id] = 1) ~> handler[h].pc # "loop"

\* C33: a handler that subscribed calls unsubscribe once, whichever way it
\* leaves: once it has returned, its queue is in no subscriber set and it
\* has made exactly one unsubscribe call; a handler that got no queue makes
\* none, and none makes more than one
C33_ReturnedHandlerUnsubscribed ==
  \A h \in Handlers :
    /\ handler[h].unsubscribed <= 1
    /\ handler[h].queue = 0 => handler[h].unsubscribed = 0
    /\ (handler[h].pc = "returned" /\ handler[h].queue # 0)
         => /\ handler[h].unsubscribed = 1
            /\ \A id \in DOMAIN subscribers : handler[h].queue \notin subscribers[id]

\* under a limit of one subscriber: a handler has returned on the stopped
\* status, and another, which subscribed to the same id after it, has
\* returned because its client went away
C33_TwoHandlersReturned ==
  \E h \in Handlers, g \in Handlers :
    /\ MAX_SUBSCRIBERS_PER_TERMINAL = 1
    /\ handler[h].pc = "returned" /\ handler[h].why = "stopped"
    /\ handler[g].pc = "returned" /\ handler[g].why \in {"send", "ping", "connect"}
    /\ handler[g].id = handler[h].id
    /\ handler[h].queue # 0 /\ handler[g].queue > handler[h].queue

\* the step is one of stop(id), or one of the monitor of session id handling
\* the exit of its process
StepOfSession(id) ==
  \/ \E dbOk \in BOOLEAN : StopBegin(id, dbOk)
  \/ stopId = id /\ \E dbOk \in BOOLEAN : StopWaitDone(dbOk)
  \/ stopId = id /\ \E killOk \in BOOLEAN : StopTimeout(killOk)
  \/ \E dbOk \in BOOLEAN : MonitorExit(id, dbOk)
  \/ \E q \in Queues : BroadcastPut(id, "monitor", q)
  \/ \E q \in Queues : BroadcastTimeout(id, "monitor", q)

\* the step leaves session j as it is: its process, its tasks, its entries
\* in the three maps, its subscriber set and the content of its queues
Untouched(j) ==
  /\ proc'[j] = proc[j]
  /\ task'[j] = task[j]
  /\ (j \in active_terminals') = (j \in active_terminals)
  /\ (j \in output_tasks') = (j \in output_tasks)
  /\ (j \in DOMAIN subscribers') = (j \in DOMAIN subscribers)
  /\ j \in DOMAIN subscribers => subscribers'[j] = subscribers[j]
  /\ \A q \in SubscribersOf(j) : enq'[q] = enq[q] /\ got'[q] = got[q]

\* C34: a step of stop(id), or of the monitor handling the natural exit of
\* session id, leaves every other session untouched
C34_OtherSessionsUntouched ==
  [][\A id \in Ids : StepOfSession(id) => \A j \in Ids \ {id} : Untouched(j)]_vars

\* one session was ended by stop() while its process ran and the other
\* exited by itself, each with its subscriber: the status message is in the
\* queue of the session that exited and in no other
C34_StoppedBesideExited ==
  \E id \in Ids, j \in Ids :
    /\ id # j
    /\ stopped[id] = 1 /\ statusBcast[id] = 0 /\ proc[id].rc # 0
    /\ statusBcast[j] = 1 /\ task[j]["monitor"].pc = "done"
    /\ \E q \in SubscribersOf(j) : Len(enq[q]) = 1
    /\ \E q \in SubscribersOf(id) : Len(enq[q]) = 0
====
